---- MODULE Spec2Model ----
(***************************************************************************)
(* A model of zero/cache.py: the Cache object of the zero file system.     *)
(*                                                                         *)
(* The on-disk cache directory, the inode registry, the state store, the   *)
(* path locks and the open file descriptors are the state.  Every callback *)
(* of Cache is a sequence of steps of a task (a kernel callback thread or  *)
(* the worker thread); a step is one system call or one call into a        *)
(* collaborator, so that the interleavings of two callbacks are the        *)
(* interleavings of their steps.                                           *)
(***************************************************************************)
EXTENDS Integers, Sequences, FiniteSets, TLC

\* ------------------------------------------------------------------ bounds
MaxTime == 1        \* the clock runs 0..MaxTime
MaxInode == 3       \* inode identifiers 1..MaxInode
MaxFd == 1          \* file descriptors 1..MaxFd
MaxLen == 3         \* longest file content, in bytes

\* ---------------------------------------------------------------- universe
Paths == {"/a", "/b"}
\* The two paths are alike: the callbacks that take one path are run on "/a",
\* and "/b" is the other path of a rename.
OpPaths == {"/a"}
Fuse == "fuse"
Fuse2 == "fuse2"
Worker == "worker"
Tasks == {Fuse, Fuse2, Worker}
Inodes == 1 .. MaxInode
Fds == 1 .. MaxFd
Times == 0 .. MaxTime
FileIds == 1 .. (2 * Cardinality(Paths) + MaxFd + Cardinality(Tasks))   \* = 1 .. NSlots

None == 0                      \* Python's None: no inode, no descriptor, no file
NoLock == "nolock"
NoPath == "nopath"

\* What the directory entry at a cache path can be.  The entry of a regular
\* file names its file object (in FileIds); a descriptor opened on the file
\* keeps naming that object when the entry is renamed or removed.
Absent == [kind |-> "absent", file |-> None]
Dir == [kind |-> "dir", file |-> None]
Link == [kind |-> "link", file |-> None]          \* a symlink, target exists
DeadLink == [kind |-> "deadlink", file |-> None]  \* a symlink, target missing
File(f) == [kind |-> "file", file |-> f]
IsFile(e) == e.kind = "file"

\* The tags of the state store.  NoTag: the store has no entry (a directory,
\* or an inode that was never created).
NoTag == "none"
Clean == "clean"
Dirty == "dirty"
Remote == "remote"
ToDelete == "todelete"
Tags == {NoTag, Clean, Dirty, Remote, ToDelete}

NoFile == [used |-> FALSE, bytes |-> <<>>, atime |-> 0, mtime |-> 0]
NoFd == [open |-> FALSE, file |-> None, writable |-> FALSE, pos |-> 0]
NoStat == [st_atime |-> 0, st_mtime |-> 0]

VARIABLES
  bare,       \* bare[p]: the directory entry at to_cache_path(p)
  dummy,      \* dummy[p]: the directory entry at add_dummy_ending(to_cache_path(p))
  files,      \* files[f]: the file object f: its bytes, atime and mtime
  fds,        \* fds[h]: the open file descriptor h: its file, flags, position
  reg,        \* the inode registry: reg[p] is get_inode(p)
  nextInode,  \* the next identifier the registry assigns
  st,         \* the state store: st[i] is the tag of inode i
  locks,      \* the path locks: locks[p] = [ex |-> holder or NoLock, sh |-> readers]
  now,        \* the clock
  task        \* task[t]: the callback task t runs, its position and its locals

vars == <<bare, dummy, files, fds, reg, nextInode, st, locks, now, task>>

\* ------------------------------------------------------------ pure helpers

\* json.dump of a stat dictionary, as the bytes of the placeholder file.
JsonDump(d) == <<-1, d.st_atime, d.st_mtime>>

\* json.load accepts exactly the texts json.dump writes.
JsonValid(s) == /\ Len(s) = 3
                /\ s[1] = -1
                /\ s[2] \in Times
                /\ s[3] \in Times

JsonLoad(s) == [st_atime |-> s[2], st_mtime |-> s[3]]

\* get_stat_dictionary of a file object.
get_stat_dictionary(f) == [st_atime |-> f.atime, st_mtime |-> f.mtime]

\* api.download(inode).read(): the bytes the remote holds for the inode.
Download(i) == <<10 + i>>

Min(S) == CHOOSE x \in S : \A y \in S : x <= y

\* os.write at an offset: the bytes of data replace those at offset.., the
\* file grows as needed and a gap is filled with zero bytes.
WriteAt(bytes, offset, data) ==
  LET n == IF Len(bytes) > offset + Len(data) THEN Len(bytes) ELSE offset + Len(data)
  IN [k \in 1 .. n |->
        IF k > offset /\ k <= offset + Len(data) THEN data[k - offset]
        ELSE IF k <= Len(bytes) THEN bytes[k] ELSE 0]

\* file.truncate(length): cut, or extend with zero bytes.
TruncateTo(bytes, length) ==
  [k \in 1 .. length |-> IF k <= Len(bytes) THEN bytes[k] ELSE 0]

\* os.read of size bytes at a position.
ReadAt(bytes, pos, size) ==
  LET last == IF pos + size < Len(bytes) THEN pos + size ELSE Len(bytes)
  IN IF pos >= Len(bytes) THEN <<>> ELSE SubSeq(bytes, pos + 1, last)

\* The places a file object is named from, in a fixed order: the directory
\* entries, the descriptors, and the Python file object a task holds open
\* while it hydrates.
PathSeq == <<"/a", "/b">>
TaskSeq == <<Fuse, Fuse2, Worker>>
NSlots == 2 * Len(PathSeq) + MaxFd + Len(TaskSeq)
SlotFile(b, d, h, tk, k) ==
  IF k <= Len(PathSeq) THEN b[PathSeq[k]].file
  ELSE IF k <= 2 * Len(PathSeq) THEN d[PathSeq[k - Len(PathSeq)]].file
  ELSE IF k <= 2 * Len(PathSeq) + MaxFd THEN h[k - 2 * Len(PathSeq)].file
  ELSE tk[TaskSeq[k - 2 * Len(PathSeq) - MaxFd]].hf

\* File objects have no name of their own: each is numbered by the first
\* place that names it.  A file object nothing names is freed by the kernel.
Canon(b, d, h, tk, f) ==
  IF f = None THEN None
  ELSE Min({k \in 1 .. NSlots : SlotFile(b, d, h, tk, k) = f})

FreshFile == Min({f \in FileIds : ~files[f].used})
FreeFds == {h \in Fds : ~fds[h].open}

\* Converter.to_cache_path / add_dummy_ending: the two names of a logical path
\* are the two entries bare[p] and dummy[p].
_get_path_or_dummy(p) ==
  IF bare[p].kind \notin {"absent", "deadlink"} THEN "bare"
  ELSE IF IsFile(dummy[p]) THEN "dummy"
  ELSE "None"

\* InodeStore.get_paths(inode): the paths registered for the inode.
get_paths(i) == {p \in Paths : i # None /\ reg[p] = i}
FirstPath(i) == CHOOSE p \in get_paths(i) : TRUE

\* StateStore predicates.
is_clean(i) == i \in Inodes /\ st[i] = Clean
is_remote(i) == i \in Inodes /\ st[i] = Remote
exists(i) == i \in Inodes /\ st[i] # NoTag

\* StateStore.set_dirty / set_remote / set_downloaded / set_todelete.  A call
\* with None (a path the registry does not know) names no inode.
SetTag(s, i, tag) == IF i \in Inodes THEN [s EXCEPT ![i] = tag] ELSE s

\* ------------------------------------------------------------------- tasks
\* pc, op and the arguments and locals of the callback; res, outfd, outbytes:
\* what it returned; ev: the signals it sent and the effects it had, in order;
\* was: the state the callback was called in, kept to state what it did.
NoWas == [inode |-> None, tag |-> NoTag, bare |-> "absent", dummy |-> "absent",
          bytes |-> <<>>, st |-> <<>>, atime |-> 0, mtime |-> 0]
Idle == [pc |-> "idle", op |-> "", path |-> NoPath, path2 |-> NoPath,
         dp |-> NoPath, hp |-> NoPath, inode |-> None, fh |-> None,
         data |-> <<>>, offset |-> 0, n |-> 0, flags |-> "", sd |-> NoStat,
         cp |-> "", ret |-> "", hf |-> None, res |-> "", outfd |-> None,
         outbytes |-> <<>>, pre |-> None, ev |-> <<>>,
         was |-> NoWas, was2 |-> NoWas]

TagOf(i) == IF i \in Inodes THEN st[i] ELSE NoTag

\* The state of path p as a callback finds it.
Was(p) ==
  [inode |-> reg[p], tag |-> TagOf(reg[p]), bare |-> bare[p].kind,
   dummy |-> dummy[p].kind,
   bytes |-> IF IsFile(dummy[p]) THEN files[dummy[p].file].bytes
             ELSE IF IsFile(bare[p]) THEN files[bare[p].file].bytes ELSE <<>>,
   st |-> st,
   atime |-> IF IsFile(bare[p]) THEN files[bare[p].file].atime ELSE 0,
   mtime |-> IF IsFile(bare[p]) THEN files[bare[p].file].mtime ELSE 0]

\* A task that starts callback op on path p.
Started(op, p) == [Idle EXCEPT !.pc = op, !.op = op, !.path = p,
                                !.pre = reg[p], !.was = Was(p)]

\* The task after its callback raised err: the with-blocks it is in are left,
\* so its Python file object is closed (its locks are released by Unwind).
\* What is left of a callback once it is over: its arguments, the inode it
\* worked on, its result and the signals it sent to the ranker.
Over(t, res) ==
  [Idle EXCEPT !.pc = "ret", !.res = res, !.op = task[t].op,
               !.path = task[t].path, !.path2 = task[t].path2,
               !.inode = task[t].inode, !.pre = task[t].pre,
               !.ev = task[t].ev, !.was = task[t].was, !.was2 = task[t].was2]
Raised(t, err) == Over(t, err)
Returned(t) == Over(t, "ok")
\* PathLock ran out of retries before callback op on path p got its lock.
Exhausted(op, p) == [Started(op, p) EXCEPT !.pc = "ret",
                                           !.res = "lock-retry-exhausted"]

\* ------------------------------------------------------------------- locks
\* PathLock: exclusive, or shared on the leaf.
CanLockEx(p) == locks[p].ex = NoLock /\ locks[p].sh = {}
CanLockSh(p) == locks[p].ex = NoLock
LockEx(t, p) == [locks EXCEPT ![p].ex = t]
LockSh(t, p) == [locks EXCEPT ![p].sh = @ \cup {t}]
Unlock(lk, t, p) ==
  [lk EXCEPT ![p] = [ex |-> IF @.ex = t THEN NoLock ELSE @.ex, sh |-> @.sh \ {t}]]
\* PathLock.__exit__ of every lock the task holds: what an exception does.
Unwind(t) ==
  [p \in Paths |-> [ex |-> IF locks[p].ex = t THEN NoLock ELSE locks[p].ex,
                    sh |-> locks[p].sh \ {t}]]
Holds(t, p) == locks[p].ex = t \/ t \in locks[p].sh
HoldsEx(t, p) == locks[p].ex = t

\* One step's effect on the disk, the descriptors, the task and the locks.
Commit(b, d, fs, h, tk, lk) ==
  /\ bare' = [p \in Paths |-> [b[p] EXCEPT !.file = Canon(b, d, h, tk, @)]]
  /\ dummy' = [p \in Paths |-> [d[p] EXCEPT !.file = Canon(b, d, h, tk, @)]]
  /\ fds' = [x \in Fds |-> [h[x] EXCEPT !.file = Canon(b, d, h, tk, @)]]
  /\ task' = [t \in Tasks |-> [tk[t] EXCEPT !.hf = Canon(b, d, h, tk, @)]]
  /\ locks' = lk
  /\ files' = [g \in FileIds |->
       IF SlotFile(b, d, h, tk, g) # None
            /\ Canon(b, d, h, tk, SlotFile(b, d, h, tk, g)) = g
         THEN fs[SlotFile(b, d, h, tk, g)]
         ELSE NoFile]

\* A step of task t that touches neither the disk nor the descriptors.
Local(t, rec, lk) == Commit(bare, dummy, files, fds, [task EXCEPT ![t] = rec], lk)

\* The callback raises err.
Fail(t, err) == Local(t, Raised(t, err), Unwind(t))

\* -------------------------------------------------------------------- Init
InitKinds == {"absent", "clean", "dirty", "remote", "dir", "link", "deadlink"}
\* "/b" is the target of a rename: nothing, or a file in either form.
InitKindsB == {"absent", "clean", "remote"}
InitBytes == <<1, 2>>
\* The stat dictionary of a placeholder the worker made for a remote file.
InitStat == [st_atime |-> MaxTime, st_mtime |-> MaxTime]
HasFile(k, p) == k[p] \in {"clean", "dirty", "remote"}
HasInode(k, p) == k[p] \in {"clean", "dirty", "remote", "dir"}
InitFile(k, p) == IF p = "/a" THEN (IF k[p] = "remote" THEN 3 ELSE 1)
                  ELSE (IF k[p] = "remote" THEN 4 ELSE 2)
InitInode(k, p) == IF p = "/a" THEN 1 ELSE 2

InitFor(k) ==
  /\ bare = [p \in Paths |->
       CASE k[p] \in {"clean", "dirty"} -> File(InitFile(k, p))
         [] k[p] = "dir" -> Dir
         [] k[p] = "link" -> Link
         [] k[p] = "deadlink" -> DeadLink
         [] OTHER -> Absent]
  /\ dummy = [p \in Paths |-> IF k[p] = "remote" THEN File(InitFile(k, p)) ELSE Absent]
  /\ files = [f \in FileIds |->
       IF \E p \in Paths : InitFile(k, p) = f /\ k[p] \in {"clean", "dirty"}
         THEN [used |-> TRUE, bytes |-> InitBytes, atime |-> 0, mtime |-> 0]
       ELSE IF \E p \in Paths : InitFile(k, p) = f /\ k[p] = "remote"
         THEN [used |-> TRUE, bytes |-> JsonDump(InitStat), atime |-> 0, mtime |-> 0]
       ELSE NoFile]
  /\ fds = [h \in Fds |-> NoFd]
  /\ reg = [p \in Paths |-> IF HasInode(k, p) THEN InitInode(k, p) ELSE None]
  /\ nextInode = 3
  /\ st = [i \in Inodes |->
       IF \E p \in Paths : HasFile(k, p) /\ InitInode(k, p) = i
         THEN k[CHOOSE p \in Paths : HasFile(k, p) /\ InitInode(k, p) = i]
       ELSE NoTag]
  /\ locks = [p \in Paths |-> [ex |-> NoLock, sh |-> {}]]
  /\ now = 0
  /\ task = [t \in Tasks |-> Idle]

Init == \E ka \in InitKinds, kb \in InitKindsB :
          InitFor([p \in Paths |-> IF p = "/a" THEN ka ELSE kb])

\* ------------------------------------------------------------ environment
\* Time passes.
Tick == /\ now < MaxTime
        /\ now' = now + 1
        /\ UNCHANGED <<bare, dummy, files, fds, reg, nextInode, st, locks, task>>

\* The adapter closes a descriptor that open or create returned.
Release(h) ==
  /\ fds[h].open
  /\ \A t \in Tasks : task[t].fh # h
  /\ Commit(bare, dummy, files, [fds EXCEPT ![h] = NoFd], task, locks)
  /\ UNCHANGED <<reg, nextInode, st, now>>

\* The callback of task t has returned; the task takes the next one.
Return(t) ==
  /\ task[t].pc = "ret"
  /\ Local(t, Idle, locks)
  /\ UNCHANGED <<reg, nextInode, st, now>>

\* ------------------------------------------- _get_path and _replace_dummy
\* Cache._get_path: hydrate first when the placeholder exists.  The task goes
\* on at `next` when there is none, or after the hydration.
GetPath(rec, next) ==
  IF IsFile(dummy[rec.path])
    THEN [rec EXCEPT !.pc = "hy_read", !.ret = next, !.inode = reg[rec.path]]
    ELSE [rec EXCEPT !.pc = next]

\* _replace_dummy, lines 221-230: the state is checked but only logged; the
\* canonical path is looked up; the placeholder is read and parsed.
HyRead(t) ==
  /\ task[t].pc = "hy_read"
  /\ LET i == task[t].inode
     IN IF get_paths(i) = {}
          THEN Fail(t, "IndexError")
        ELSE IF ~IsFile(dummy[FirstPath(i)])
          THEN Fail(t, "ENOENT")
        ELSE IF ~JsonValid(files[dummy[FirstPath(i)].file].bytes)
          THEN Fail(t, "JSONDecodeError")
        ELSE Local(t, [task[t] EXCEPT !.pc = "hy_rename", !.hp = FirstPath(i),
                         !.sd = JsonLoad(files[dummy[FirstPath(i)].file].bytes)],
                   locks)
  /\ UNCHANGED <<reg, nextInode, st, now>>

\* line 233: os.rename(dummy_path, cache_path).
HyRename(t) ==
  /\ task[t].pc = "hy_rename"
  /\ LET p == task[t].hp
     IN IF ~IsFile(dummy[p]) THEN Fail(t, "ENOENT")
        ELSE IF bare[p].kind = "dir" THEN Fail(t, "EISDIR")
        ELSE Commit([bare EXCEPT ![p] = dummy[p]], [dummy EXCEPT ![p] = Absent],
                    files, fds, [task EXCEPT ![t].pc = "hy_open"], locks)
  /\ UNCHANGED <<reg, nextInode, st, now>>

\* line 234: open(cache_path, "w+b") truncates the file.
HyOpen(t) ==
  /\ task[t].pc = "hy_open"
  /\ LET p == task[t].hp
         f == bare[p].file
     IN IF ~IsFile(bare[p]) THEN Fail(t, "ENOENT")
        ELSE Commit(bare, dummy,
                    [files EXCEPT ![f].bytes = <<>>, ![f].mtime = now], fds,
                    [task EXCEPT ![t].pc = "hy_download", ![t].hf = f], locks)
  /\ UNCHANGED <<reg, nextInode, st, now>>

\* A hydration that moves the file back to the placeholder path when the
\* download fails.
HyDownloadUndone(t) ==
  /\ task[t].pc = "hy_download"
  /\ \/ Commit(bare, dummy,
               [files EXCEPT ![task[t].hf].bytes = Download(task[t].inode),
                             ![task[t].hf].mtime = now],
               fds, [task EXCEPT ![t].pc = "hy_utime", ![t].hf = None,
                                 ![t].ev = Append(@, "download")], locks)
     \/ Commit([bare EXCEPT ![task[t].hp] = Absent],
               [dummy EXCEPT ![task[t].hp] = bare[task[t].hp]],
               files, fds, [task EXCEPT ![t] = Raised(t, "ENETUNREACH")],
               Unwind(t))
  /\ UNCHANGED <<reg, nextInode, st, now>>

\* lines 235-238: the download succeeds and its bytes are written, or it raises
\* ConnectionError and the callback fails with ENETUNREACH.
HyDownload(t) ==
  /\ task[t].pc = "hy_download"
  /\ \/ Commit(bare, dummy,
               [files EXCEPT ![task[t].hf].bytes = Download(task[t].inode),
                             ![task[t].hf].mtime = now],
               fds, [task EXCEPT ![t].pc = "hy_utime", ![t].hf = None,
                                 ![t].ev = Append(@, "download")], locks)
     \/ Fail(t, "ENETUNREACH")
  /\ UNCHANGED <<reg, nextInode, st, now>>

\* A hydration that leaves the times of the download on the file.
HyUtimeSkipped(t) ==
  /\ task[t].pc = "hy_utime"
  /\ Local(t, [task[t] EXCEPT !.pc = "hy_done"], locks)
  /\ UNCHANGED <<reg, nextInode, st, now>>

\* line 240: os.utime(cache_path, (st_atime, st_mtime)).
HyUtime(t) ==
  /\ task[t].pc = "hy_utime"
  /\ LET p == task[t].hp
         f == bare[p].file
     IN IF ~IsFile(bare[p]) THEN Fail(t, "ENOENT")
        ELSE Commit(bare, dummy,
                    [files EXCEPT ![f].atime = task[t].sd.st_atime,
                                  ![f].mtime = task[t].sd.st_mtime],
                    fds, [task EXCEPT ![t].pc = "hy_done"], locks)
  /\ UNCHANGED <<reg, nextInode, st, now>>

\* line 241: state_store.set_downloaded(inode); then back in the caller, which
\* for replace_dummy leaves its with-block.
HySetDownloaded(t) ==
  /\ task[t].pc = "hy_done"
  /\ st' = SetTag(st, task[t].inode, Clean)
  /\ IF task[t].ret = "exit"
       THEN Local(t, Returned(t), Unwind(t))
       ELSE Local(t, [task[t] EXCEPT !.pc = task[t].ret], locks)
  /\ UNCHANGED <<reg, nextInode, now>>

\* ------------------------------------------------------------------- open
OpenFlags == {"O_RDONLY", "O_RDWR"}

\* lines 53-59: PathLock(path), exclusive; cache_path = self._get_path(path).
OpenStart(t, p, flags) ==
  /\ task[t].pc = "idle"
  /\ IF CanLockEx(p)
       THEN Local(t, GetPath([Started("open", p) EXCEPT !.flags = flags], "open_os"),
                  LockEx(t, p))
       ELSE Local(t, Exhausted("open", p), locks)
  /\ UNCHANGED <<reg, nextInode, st, now>>

\* line 61: return os.open(cache_path, flags).
OpenOs(t) ==
  /\ task[t].pc = "open_os"
  /\ LET p == task[t].path
         h == Min(FreeFds)
     IN IF bare[p].kind \in {"absent", "deadlink"} THEN Fail(t, "ENOENT")
        ELSE IF ~IsFile(bare[p]) THEN Fail(t, "EISDIR")
        ELSE IF FreeFds = {} THEN Fail(t, "EMFILE")
        ELSE Commit(bare, dummy, files,
                    [fds EXCEPT ![h] = [open |-> TRUE, file |-> bare[p].file,
                                        writable |-> task[t].flags = "O_RDWR",
                                        pos |-> 0]],
                    [task EXCEPT ![t] = [Returned(t) EXCEPT !.outfd = h]],
                    Unwind(t))
  /\ UNCHANGED <<reg, nextInode, st, now>>

\* ---------------------------------------------------------- replace_dummy
\* line 215: path = get_paths(inode)[0], before the lock is taken.
ReplaceDummyStart(t, i) ==
  /\ task[t].pc = "idle"
  /\ IF get_paths(i) = {}
       THEN Local(t, [Idle EXCEPT !.pc = "ret", !.op = "replace_dummy",
                                   !.inode = i, !.res = "IndexError"], locks)
       ELSE Local(t, [Started("replace_dummy", FirstPath(i)) EXCEPT
                        !.pc = "rpl_lock", !.inode = i], locks)
  /\ UNCHANGED <<reg, nextInode, st, now>>

\* line 216: PathLock(path, inode_store), then _replace_dummy(inode).
ReplaceDummyLock(t) ==
  /\ task[t].pc = "rpl_lock"
  /\ CanLockEx(task[t].path)
  /\ Local(t, [task[t] EXCEPT !.pc = "hy_read", !.ret = "exit"],
           LockEx(t, task[t].path))
  /\ UNCHANGED <<reg, nextInode, st, now>>

\* ------------------------------------------------------------------- read
\* The adapter passes the descriptor back with the path its file is at.
FdAt(h, p) ==
  /\ fds[h].open
  /\ \/ (IsFile(bare[p]) /\ bare[p].file = fds[h].file)
     \/ (IsFile(dummy[p]) /\ dummy[p].file = fds[h].file)

Offsets == 0 .. 1
Sizes == {1}

\* lines 65-73: PathLock(path, exclusive_lock_on_leaf=False); get_inode;
\* ranker.handle_inode_access(inode).
ReadStart(t, p, size, offset, h) ==
  /\ task[t].pc = "idle"
  /\ FdAt(h, p)
  /\ IF CanLockSh(p)
       THEN Local(t, [Started("read", p) EXCEPT !.pc = "read_seek", !.n = size,
                        !.offset = offset, !.fh = h, !.inode = reg[p],
                        !.ev = <<"access">>],
                  LockSh(t, p))
       ELSE Local(t, Exhausted("read", p), locks)
  /\ UNCHANGED <<reg, nextInode, st, now>>

\* line 74: os.lseek(fh, offset, 0).
ReadSeek(t) ==
  /\ task[t].pc = "read_seek"
  /\ Commit(bare, dummy, files, [fds EXCEPT ![task[t].fh].pos = task[t].offset],
            [task EXCEPT ![t].pc = "read_read"], locks)
  /\ UNCHANGED <<reg, nextInode, st, now>>

\* line 75: return os.read(fh, size).
ReadRead(t) ==
  /\ task[t].pc = "read_read"
  /\ LET h == task[t].fh
         got == ReadAt(files[fds[h].file].bytes, fds[h].pos, task[t].n)
     IN Commit(bare, dummy, files, [fds EXCEPT ![h].pos = @ + Len(got)],
               [task EXCEPT ![t] = [Returned(t) EXCEPT !.outbytes = got,
                                                      !.ev = Append(@, "disk")]],
               Unwind(t))
  /\ UNCHANGED <<reg, nextInode, st, now>>

\* ------------------------------------------------------------------ write
WriteData == {<<7>>}
WriteOffsets == {0}

\* lines 92-99: PathLock(path); get_inode; ranker.handle_inode_access(inode).
WriteStart(t, p, data, offset, h) ==
  /\ task[t].pc = "idle"
  /\ FdAt(h, p)
  /\ offset + Len(data) <= MaxLen
  /\ IF CanLockEx(p)
       THEN Local(t, [Started("write", p) EXCEPT !.pc = "write_write",
                        !.data = data, !.offset = offset, !.fh = h,
                        !.inode = reg[p], !.ev = <<"access">>],
                  LockEx(t, p))
       ELSE Local(t, Exhausted("write", p), locks)
  /\ UNCHANGED <<reg, nextInode, st, now>>

\* lines 100-101: os.lseek(fh, offset, 0); result = os.write(fh, data).
WriteWrite(t) ==
  /\ task[t].pc = "write_write"
  /\ LET h == task[t].fh
         f == fds[h].file
     IN IF ~fds[h].writable
          THEN /\ Commit(bare, dummy, files, [fds EXCEPT ![h].pos = task[t].offset],
                         [task EXCEPT ![t] = Raised(t, "EBADF")], Unwind(t))
          ELSE /\ Commit(bare, dummy,
                         [files EXCEPT ![f].bytes = WriteAt(@, task[t].offset, task[t].data),
                                       ![f].mtime = now],
                         [fds EXCEPT ![h].pos = task[t].offset + Len(task[t].data)],
                         [task EXCEPT ![t].pc = "write_dirty", ![t].n = Len(task[t].data),
                                      ![t].ev = Append(@, "disk")],
                         locks)
  /\ UNCHANGED <<reg, nextInode, st, now>>

\* lines 102-103: state_store.set_dirty(inode); return result.
WriteSetDirty(t) ==
  /\ task[t].pc = "write_dirty"
  /\ st' = SetTag(st, task[t].inode, Dirty)
  /\ Local(t, Returned(t), Unwind(t))
  /\ UNCHANGED <<reg, nextInode, now>>

\* --------------------------------------------------------------- truncate
Lengths == {1}

\* lines 78-85: PathLock(path); inode = get_inode(path);
\* cache_path = self._get_path(path).  pre keeps the inode line 84 read.
TruncateStart(t, p, length) ==
  /\ task[t].pc = "idle"
  /\ reg[p] # None
  /\ IsFile(bare[p]) \/ IsFile(dummy[p])
  /\ IF CanLockEx(p)
       THEN Local(t, GetPath([Started("truncate", p) EXCEPT !.n = length],
                             "trunc_dirty"),
                  LockEx(t, p))
       ELSE Local(t, Exhausted("truncate", p), locks)
  /\ UNCHANGED <<reg, nextInode, st, now>>

\* lines 86-87: state_store.set_dirty(inode); ranker.handle_inode_access(inode).
\* The inode is the one line 84 read, kept in pre.
TruncateSetDirty(t) ==
  /\ task[t].pc = "trunc_dirty"
  /\ st' = SetTag(st, task[t].pre, Dirty)
  /\ Local(t, [task[t] EXCEPT !.pc = "trunc_trunc", !.inode = task[t].pre,
                              !.ev = Append(@, "access")], locks)
  /\ UNCHANGED <<reg, nextInode, now>>

\* lines 88-89: open(cache_path, "r+"); f.truncate(length).
TruncateTruncate(t) ==
  /\ task[t].pc = "trunc_trunc"
  /\ LET p == task[t].path
         f == bare[p].file
     IN IF bare[p].kind \in {"absent", "deadlink"} THEN Fail(t, "ENOENT")
        ELSE IF ~IsFile(bare[p]) THEN Fail(t, "EISDIR")
        ELSE Commit(bare, dummy,
                    [files EXCEPT ![f].bytes = TruncateTo(@, task[t].n),
                                  ![f].mtime = now],
                    fds,
                    [task EXCEPT ![t] = [Returned(t) EXCEPT !.ev = Append(@, "disk")]],
                    Unwind(t))
  /\ UNCHANGED <<reg, nextInode, st, now>>

\* ----------------------------------------------------------- create_dummy
\* line 244: path = get_paths(inode)[0], before the lock is taken.
CreateDummyStart(t, i) ==
  /\ task[t].pc = "idle"
  /\ IF get_paths(i) = {}
       THEN Local(t, [Idle EXCEPT !.pc = "ret", !.op = "create_dummy",
                                   !.inode = i, !.res = "IndexError"], locks)
       ELSE Local(t, [Started("create_dummy", FirstPath(i)) EXCEPT
                        !.pc = "cd_lock", !.inode = i], locks)
  /\ UNCHANGED <<reg, nextInode, st, now>>

\* line 245: PathLock(path, inode_store).
CreateDummyLock(t) ==
  /\ task[t].pc = "cd_lock"
  /\ CanLockEx(task[t].path)
  /\ Local(t, [task[t] EXCEPT !.pc = "cd_check"], LockEx(t, task[t].path))
  /\ UNCHANGED <<reg, nextInode, st, now>>

\* A create_dummy that does not look at the state of the inode.
CreateDummyUnchecked(t) ==
  /\ task[t].pc = "cd_check"
  /\ Local(t, [task[t] EXCEPT !.pc = "cd_stat"], locks)
  /\ UNCHANGED <<reg, nextInode, st, now>>

\* lines 247-251: if not is_clean(inode): return.
CreateDummyCheck(t) ==
  /\ task[t].pc = "cd_check"
  /\ IF ~is_clean(task[t].inode)
       THEN Local(t, [Returned(t) EXCEPT !.res = "refused"], Unwind(t))
       ELSE Local(t, [task[t] EXCEPT !.pc = "cd_stat"], locks)
  /\ UNCHANGED <<reg, nextInode, st, now>>

\* A create_dummy that takes the stat dictionary of a file it has just touched.
CreateDummyStatLate(t) ==
  /\ task[t].pc = "cd_stat"
  /\ LET p == task[t].path
     IN IF ~IsFile(bare[p]) THEN Fail(t, "ENOENT")
        ELSE Local(t, [task[t] EXCEPT !.pc = "cd_rename",
                         !.sd = [st_atime |-> now, st_mtime |-> now]], locks)
  /\ UNCHANGED <<reg, nextInode, st, now>>

\* lines 252-253: stat_dict = get_stat_dictionary(cache_path).
CreateDummyStat(t) ==
  /\ task[t].pc = "cd_stat"
  /\ LET p == task[t].path
     IN IF ~IsFile(bare[p]) THEN Fail(t, "ENOENT")
        ELSE Local(t, [task[t] EXCEPT !.pc = "cd_rename",
                         !.sd = get_stat_dictionary(files[bare[p].file])], locks)
  /\ UNCHANGED <<reg, nextInode, st, now>>

\* A create_dummy that copies the file to the placeholder path and leaves the
\* bare file where it is.
CreateDummyCopy(t) ==
  /\ task[t].pc = "cd_rename"
  /\ LET p == task[t].path
     IN IF ~IsFile(bare[p]) THEN Fail(t, "ENOENT")
        ELSE Commit(bare, [dummy EXCEPT ![p] = File(FreshFile)],
                    [files EXCEPT ![FreshFile] = files[bare[p].file]],
                    fds, [task EXCEPT ![t].pc = "cd_write"], locks)
  /\ UNCHANGED <<reg, nextInode, st, now>>

\* line 255: os.rename(cache_path, dummy_path).
CreateDummyRename(t) ==
  /\ task[t].pc = "cd_rename"
  /\ LET p == task[t].path
     IN IF ~IsFile(bare[p]) THEN Fail(t, "ENOENT")
        ELSE Commit([bare EXCEPT ![p] = Absent], [dummy EXCEPT ![p] = bare[p]],
                    files, fds, [task EXCEPT ![t].pc = "cd_write"], locks)
  /\ UNCHANGED <<reg, nextInode, st, now>>

\* lines 257-260: open_without_changing_times(dummy_path, "w"); json.dump.
CreateDummyWrite(t) ==
  /\ task[t].pc = "cd_write"
  /\ LET p == task[t].path
         f == dummy[p].file
     IN IF ~IsFile(dummy[p]) THEN Fail(t, "ENOENT")
        ELSE Commit(bare, dummy, [files EXCEPT ![f].bytes = JsonDump(task[t].sd)],
                    fds, [task EXCEPT ![t].pc = "cd_remote"], locks)
  /\ UNCHANGED <<reg, nextInode, st, now>>

\* line 261: state_store.set_remote(inode).
CreateDummySetRemote(t) ==
  /\ task[t].pc = "cd_remote"
  /\ st' = SetTag(st, task[t].inode, Remote)
  /\ Local(t, Returned(t), Unwind(t))
  /\ UNCHANGED <<reg, nextInode, now>>

\* ----------------------------------------------------------- the registry
\* InodeStore.create_path: a path the registry does not know gets the next
\* inode identifier; a path it knows keeps its inode.
create_path(r, p) == IF r[p] # None THEN r ELSE [r EXCEPT ![p] = nextInode]
\* InodeStore.delete_path.
delete_path(r, p) == [r EXCEPT ![p] = None]
\* InodeStore.rename_paths(old, new).
rename_paths(r, old, new) == [r EXCEPT ![new] = r[old], ![old] = None]

\* The callbacks under way that may still ask the registry for a new inode.
Creating == {t \in Tasks : task[t].pc \in {"create_open", "create_register",
                                          "mkdir_register"}}

\* ----------------------------------------------------------------- create
CreateStart(t, p) ==
  /\ task[t].pc = "idle"
  /\ bare[p].kind \notin {"link", "deadlink"}
  /\ reg[p] # None \/ nextInode + Cardinality(Creating) <= MaxInode
  /\ Local(t, [Started("create", p) EXCEPT !.pc = "create_open"], locks)
  /\ UNCHANGED <<reg, nextInode, st, now>>

\* lines 106-109: os.open(cache_path, O_WRONLY | O_CREAT | O_TRUNC, mode).
\* No path lock is taken.
CreateOpen(t) ==
  /\ task[t].pc = "create_open"
  /\ LET p == task[t].path
         h == Min(FreeFds)
         f == IF IsFile(bare[p]) THEN bare[p].file ELSE FreshFile
     IN IF bare[p].kind = "dir" THEN Fail(t, "EISDIR")
        ELSE IF FreeFds = {} THEN Fail(t, "EMFILE")
        ELSE Commit([bare EXCEPT ![p] = File(f)], dummy,
                    [files EXCEPT ![f] =
                       IF IsFile(bare[p])
                         THEN [@ EXCEPT !.bytes = <<>>, !.mtime = now]
                         ELSE [used |-> TRUE, bytes |-> <<>>, atime |-> now,
                               mtime |-> now]],
                    [fds EXCEPT ![h] = [open |-> TRUE, file |-> f,
                                        writable |-> TRUE, pos |-> 0]],
                    [task EXCEPT ![t].pc = "create_register", ![t].outfd = h,
                                 ![t].ev = Append(@, "disk")],
                    locks)
  /\ UNCHANGED <<reg, nextInode, st, now>>

\* line 110: inode_store.create_path(path).
CreateRegister(t) ==
  /\ task[t].pc = "create_register"
  /\ reg[task[t].path] # None \/ nextInode <= MaxInode
  /\ reg' = create_path(reg, task[t].path)
  /\ nextInode' = IF reg[task[t].path] = None THEN nextInode + 1 ELSE nextInode
  /\ Local(t, [task[t] EXCEPT !.pc = "create_dirty"], locks)
  /\ UNCHANGED <<st, now>>

\* lines 111-114: leaf_inode = get_inode(path); set_dirty(leaf_inode);
\* ranker.handle_inode_access(leaf_inode); return result.
CreateSetDirty(t) ==
  /\ task[t].pc = "create_dirty"
  /\ st' = SetTag(st, reg[task[t].path], Dirty)
  /\ Local(t, [Returned(t) EXCEPT !.inode = reg[task[t].path],
                                  !.outfd = task[t].outfd,
                                  !.ev = Append(@, "access")], Unwind(t))
  /\ UNCHANGED <<reg, nextInode, now>>

\* ------------------------------------------------------------------ mkdir
MkdirStart(t, p) ==
  /\ task[t].pc = "idle"
  /\ reg[p] # None \/ nextInode + Cardinality(Creating) <= MaxInode
  /\ Local(t, [Started("mkdir", p) EXCEPT !.pc = "mkdir_register"], locks)
  /\ UNCHANGED <<reg, nextInode, st, now>>

\* line 161: inode_store.create_path(path).  No path lock is taken.
MkdirRegister(t) ==
  /\ task[t].pc = "mkdir_register"
  /\ reg[task[t].path] # None \/ nextInode <= MaxInode
  /\ reg' = create_path(reg, task[t].path)
  /\ nextInode' = IF reg[task[t].path] = None THEN nextInode + 1 ELSE nextInode
  /\ Local(t, [task[t] EXCEPT !.pc = "mkdir_mkdir"], locks)
  /\ UNCHANGED <<st, now>>

\* lines 162-163: return os.mkdir(cache_path, mode).
MkdirMkdir(t) ==
  /\ task[t].pc = "mkdir_mkdir"
  /\ LET p == task[t].path
     IN IF bare[p].kind # "absent" THEN Fail(t, "EEXIST")
        ELSE Commit([bare EXCEPT ![p] = Dir], dummy, files, fds,
                    [task EXCEPT ![t] = [Returned(t) EXCEPT !.ev = Append(@, "disk")]],
                    Unwind(t))
  /\ UNCHANGED <<reg, nextInode, st, now>>

\* ------------------------------------------------------------------ rmdir
\* rmdir is a callback of its own (ret = "exit") and a call of rename (the
\* task goes on at ret).  dp is the path it removes.
RmdirStart(t, p) ==
  /\ task[t].pc = "idle"
  /\ bare[p].kind = "dir"
  /\ Local(t, [Started("rmdir", p) EXCEPT !.pc = "rmdir_lock", !.dp = p,
                                         !.ret = "exit"], locks)
  /\ UNCHANGED <<reg, nextInode, st, now>>

\* lines 168-174: PathLock(fuse_path); inode_store.delete_path(fuse_path).
RmdirLock(t) ==
  /\ task[t].pc = "rmdir_lock"
  /\ CanLockEx(task[t].dp)
  /\ reg' = delete_path(reg, task[t].dp)
  /\ Local(t, [task[t] EXCEPT !.pc = "rmdir_rmdir"], LockEx(t, task[t].dp))
  /\ UNCHANGED <<nextInode, st, now>>

\* line 175: return os.rmdir(cache_path).
RmdirRmdir(t) ==
  /\ task[t].pc = "rmdir_rmdir"
  /\ LET p == task[t].dp
     IN IF bare[p].kind \in {"absent"} THEN Fail(t, "ENOENT")
        ELSE IF bare[p].kind # "dir" THEN Fail(t, "ENOTDIR")
        ELSE IF task[t].ret = "exit"
          THEN Commit([bare EXCEPT ![p] = Absent], dummy, files, fds,
                      [task EXCEPT ![t] = [Returned(t) EXCEPT !.ev = Append(@, "disk")]],
                      Unwind(t))
          ELSE Commit([bare EXCEPT ![p] = Absent], dummy, files, fds,
                      [task EXCEPT ![t].pc = task[t].ret], Unlock(locks, t, p))
  /\ UNCHANGED <<reg, nextInode, st, now>>

\* ----------------------------------------------------------- _delete_file
\* _delete_file(dp) is called by unlink (ret = "exit") and by rename (the task
\* goes on at ret), in both under the lock of dp.
\* lines 193-194: inode = get_inode(fuse_path);
\* cache_path = self._get_path_or_dummy(fuse_path); the first thing done
\* under the lock of dp.
DeleteFileGet(rec) ==
  [rec EXCEPT !.pc = "df_delete", !.inode = reg[rec.dp],
              !.cp = _get_path_or_dummy(rec.dp)]

\* line 195: inode_store.delete_path(fuse_path).
DeleteFileDeletePath(t) ==
  /\ task[t].pc = "df_delete"
  /\ reg' = delete_path(reg, task[t].dp)
  /\ Local(t, [task[t] EXCEPT !.pc = "df_unlink"], locks)
  /\ UNCHANGED <<nextInode, st, now>>

\* line 196: os.unlink(cache_path): the bare file or the placeholder.
DeleteFileUnlink(t) ==
  /\ task[t].pc = "df_unlink"
  /\ LET p == task[t].dp
     IN IF task[t].cp = "None" THEN Fail(t, "TypeError")
        ELSE IF task[t].cp = "bare"
          THEN IF bare[p].kind = "absent" THEN Fail(t, "ENOENT")
               ELSE IF bare[p].kind = "dir" THEN Fail(t, "EISDIR")
               ELSE Commit([bare EXCEPT ![p] = Absent], dummy, files, fds,
                           [task EXCEPT ![t].pc = "df_todelete",
                                        ![t].ev = Append(@, "disk")], locks)
        ELSE IF dummy[p].kind = "absent" THEN Fail(t, "ENOENT")
        ELSE Commit(bare, [dummy EXCEPT ![p] = Absent], files, fds,
                    [task EXCEPT ![t].pc = "df_todelete",
                                 ![t].ev = Append(@, "disk")], locks)
  /\ UNCHANGED <<reg, nextInode, st, now>>

\* lines 197-198: ranker.handle_inode_delete(inode);
\* state_store.set_todelete(inode).
DeleteFileSetToDelete(t) ==
  /\ task[t].pc = "df_todelete"
  /\ st' = SetTag(st, task[t].inode, ToDelete)
  /\ IF task[t].ret = "exit"
       THEN Local(t, [Returned(t) EXCEPT !.ev = Append(@, "delete")], Unwind(t))
       ELSE Local(t, [task[t] EXCEPT !.pc = task[t].ret, !.ev = Append(@, "delete")],
                  Unlock(locks, t, task[t].dp))
  /\ UNCHANGED <<reg, nextInode, now>>

\* ----------------------------------------------------------------- unlink
\* The kernel looked the name up: some entry is there.
UnlinkStart(t, p) ==
  /\ task[t].pc = "idle"
  /\ bare[p].kind \notin {"absent", "dir"} \/ IsFile(dummy[p])
  /\ Local(t, [Started("unlink", p) EXCEPT !.pc = "unlink_resolve", !.dp = p,
                                          !.ret = "exit"], locks)
  /\ UNCHANGED <<reg, nextInode, st, now>>

\* lines 178-180: cache_path = self._get_path_or_dummy(fuse_path);
\* is_link = self.is_link(cache_path).  os.path.exists follows a symlink, so a
\* link whose target is missing resolves to None and os.path.islink(None)
\* raises TypeError.
UnlinkResolve(t) ==
  /\ task[t].pc = "unlink_resolve"
  /\ LET p == task[t].path
         cp == _get_path_or_dummy(p)
     IN IF cp = "None" THEN Fail(t, "TypeError")
        ELSE IF cp = "bare" /\ bare[p].kind = "link"
          THEN Local(t, [task[t] EXCEPT !.pc = "unlink_link", !.cp = cp], locks)
        ELSE Local(t, [task[t] EXCEPT !.pc = "unlink_lock", !.cp = cp], locks)
  /\ UNCHANGED <<reg, nextInode, st, now>>

\* line 181: os.unlink(cache_path) of a symlink, outside any lock.
UnlinkLink(t) ==
  /\ task[t].pc = "unlink_link"
  /\ LET p == task[t].path
     IN IF bare[p].kind = "absent" THEN Fail(t, "ENOENT")
        ELSE IF bare[p].kind = "dir" THEN Fail(t, "EISDIR")
        ELSE Commit([bare EXCEPT ![p] = Absent], dummy, files, fds,
                    [task EXCEPT ![t] = [Returned(t) EXCEPT !.ev = Append(@, "disk")]],
                    Unwind(t))
  /\ UNCHANGED <<reg, nextInode, st, now>>

\* lines 184-190: PathLock(fuse_path, acquisition_max_retries=10), then
\* self._delete_file(fuse_path).
UnlinkLock(t) ==
  /\ task[t].pc = "unlink_lock"
  /\ CanLockEx(task[t].path)
  /\ Local(t, DeleteFileGet(task[t]), LockEx(t, task[t].path))
  /\ UNCHANGED <<reg, nextInode, st, now>>

\* ----------------------------------------------------------------- rename
\* The kernel looked old up, and does not call rename for old = new.
\* lines 125-144: PathLock(old_path);
\* existing_inode_at_new_path = get_inode(new_path); a file is deleted under
\* the lock of new_path, a folder is removed with rmdir.
RenameStart(t, old, new) ==
  /\ task[t].pc = "idle"
  /\ old # new
  /\ bare[old].kind # "absent" \/ IsFile(dummy[old])
  /\ LET rec == [Started("rename", old) EXCEPT !.path2 = new, !.was2 = Was(new)]
     IN IF ~CanLockEx(old)
          THEN Local(t, [Exhausted("rename", old) EXCEPT !.path2 = new], locks)
        ELSE IF reg[new] = None
          THEN Local(t, [rec EXCEPT !.pc = "rename_os"], LockEx(t, old))
        ELSE IF exists(reg[new])
          THEN Local(t, [rec EXCEPT !.pc = "rename_locknew", !.dp = new,
                                    !.ret = "rename_os"], LockEx(t, old))
        ELSE Local(t, [rec EXCEPT !.pc = "rmdir_lock", !.dp = new,
                                  !.ret = "rename_os"], LockEx(t, old))
  /\ UNCHANGED <<reg, nextInode, st, now>>

\* lines 135-141: PathLock(new_path), then self._delete_file(new_path).
RenameLockNew(t) ==
  /\ task[t].pc = "rename_locknew"
  /\ CanLockEx(task[t].dp)
  /\ Local(t, DeleteFileGet(task[t]), LockEx(t, task[t].dp))
  /\ UNCHANGED <<reg, nextInode, st, now>>

\* A rename that does not replace a file it has not deleted itself.
RenameOsNoReplace(t) ==
  /\ task[t].pc = "rename_os"
  /\ LET old == task[t].path
         new == task[t].path2
     IN IF bare[old].kind = "absent" THEN Fail(t, "ENOENT")
        ELSE IF bare[new].kind # "absent" THEN Fail(t, "EEXIST")
        ELSE Commit([bare EXCEPT ![new] = bare[old], ![old] = Absent], dummy,
                    files, fds,
                    [task EXCEPT ![t].pc = "rename_registry",
                                 ![t].ev = Append(@, "disk")], locks)
  /\ UNCHANGED <<reg, nextInode, st, now>>

\* lines 147-150: os.rename(to_cache_path(old_path), to_cache_path(new_path)).
RenameOs(t) ==
  /\ task[t].pc = "rename_os"
  /\ LET old == task[t].path
         new == task[t].path2
     IN IF bare[old].kind = "absent" THEN Fail(t, "ENOENT")
        ELSE IF bare[old].kind = "dir" /\ bare[new].kind \notin {"absent", "dir"}
          THEN Fail(t, "ENOTDIR")
        ELSE IF bare[old].kind # "dir" /\ bare[new].kind = "dir"
          THEN Fail(t, "EISDIR")
        ELSE Commit([bare EXCEPT ![new] = bare[old], ![old] = Absent], dummy,
                    files, fds,
                    [task EXCEPT ![t].pc = "rename_registry",
                                 ![t].ev = Append(@, "disk")], locks)
  /\ UNCHANGED <<reg, nextInode, st, now>>

\* A rename whose return does not leave the with-block of old_path.
RenameRegistryHolds(t) ==
  /\ task[t].pc = "rename_registry"
  /\ reg' = rename_paths(reg, task[t].path, task[t].path2)
  /\ Local(t, Returned(t), locks)
  /\ UNCHANGED <<nextInode, st, now>>

\* line 153: inode_store.rename_paths(old_path, new_path).
RenameRegistry(t) ==
  /\ task[t].pc = "rename_registry"
  /\ reg' = rename_paths(reg, task[t].path, task[t].path2)
  /\ Local(t, Returned(t), Unwind(t))
  /\ UNCHANGED <<nextInode, st, now>>

\* ---------------------------------------------------------- getattributes
\* lines 201-203: cache_path = self._get_path_or_dummy(fuse_path); None
\* raises FuseOSError(ENOENT).  No path lock is taken.
GetattributesStart(t, p) ==
  /\ task[t].pc = "idle"
  /\ LET cp == _get_path_or_dummy(p)
     IN IF cp = "None"
          THEN Local(t, [Started("getattributes", p) EXCEPT
                           !.pc = "ret", !.res = "ENOENT", !.cp = cp], locks)
          ELSE Local(t, [Started("getattributes", p) EXCEPT
                           !.pc = "ga_read", !.cp = cp], locks)
  /\ UNCHANGED <<reg, nextInode, st, now>>

\* lines 204-208: the placeholder is opened and parsed with json.load; any
\* other entry is passed to get_stat_dictionary.
GetattributesRead(t) ==
  /\ task[t].pc = "ga_read"
  /\ LET p == task[t].path
         cp == task[t].cp
     IN IF cp = "dummy"
          THEN IF ~IsFile(dummy[p])
                 THEN Local(t, [Raised(t, "ENOENT") EXCEPT !.cp = cp], locks)
               ELSE IF ~JsonValid(files[dummy[p].file].bytes)
                 THEN Local(t, [Raised(t, "JSONDecodeError") EXCEPT !.cp = cp], locks)
               ELSE Local(t, [Returned(t) EXCEPT !.cp = cp,
                                !.sd = JsonLoad(files[dummy[p].file].bytes)], locks)
        ELSE IF bare[p].kind = "absent"
          THEN Local(t, [Raised(t, "ENOENT") EXCEPT !.cp = cp], locks)
        ELSE IF IsFile(bare[p])
          THEN Local(t, [Returned(t) EXCEPT !.cp = cp,
                           !.sd = get_stat_dictionary(files[bare[p].file])], locks)
        ELSE Local(t, [Returned(t) EXCEPT !.cp = cp], locks)
  /\ UNCHANGED <<reg, nextInode, st, now>>

Getattributes(t) ==
  \/ \E p \in OpPaths : GetattributesStart(t, p)
  \/ GetattributesRead(t)

\* ------------------------------------------------- PathLock gives up
\* The lock a task waits for: of dp in rmdir and _delete_file, of path else.
WaitPcs == {"cd_lock", "rpl_lock", "unlink_lock", "rmdir_lock", "rename_locknew"}
WaitPath(t) == IF task[t].dp # NoPath THEN task[t].dp ELSE task[t].path

\* acquisition_max_retries is used up while another task holds the lock: the
\* callback fails with the retry-exhaustion error.
LockExhausted(t) ==
  /\ task[t].pc \in WaitPcs
  /\ ~CanLockEx(WaitPath(t))
  /\ Fail(t, "lock-retry-exhausted")
  /\ UNCHANGED <<reg, nextInode, st, now>>

Hydrate(t) ==
  \/ HyRead(t) \/ HyRename(t) \/ HyOpen(t) \/ HyDownload(t)
  \/ HyUtime(t) \/ HySetDownloaded(t)

Open(t) ==
  \/ \E p \in OpPaths, fl \in OpenFlags : OpenStart(t, p, fl)
  \/ OpenOs(t)

ReplaceDummy(t) ==
  \/ \E i \in Inodes : get_paths(i) \subseteq OpPaths /\ ReplaceDummyStart(t, i)
  \/ ReplaceDummyLock(t)

Read(t) ==
  \/ \E p \in OpPaths, size \in Sizes, offset \in Offsets, h \in Fds :
       ReadStart(t, p, size, offset, h)
  \/ ReadSeek(t) \/ ReadRead(t)

Write(t) ==
  \/ \E p \in OpPaths, data \in WriteData, offset \in WriteOffsets, h \in Fds :
       WriteStart(t, p, data, offset, h)
  \/ WriteWrite(t) \/ WriteSetDirty(t)

Truncate(t) ==
  \/ \E p \in OpPaths, length \in Lengths : TruncateStart(t, p, length)
  \/ TruncateSetDirty(t)
  \/ TruncateTruncate(t)

CreateDummy(t) ==
  \/ \E i \in Inodes : get_paths(i) \subseteq OpPaths /\ CreateDummyStart(t, i)
  \/ CreateDummyLock(t) \/ CreateDummyCheck(t) \/ CreateDummyStat(t)
  \/ CreateDummyRename(t) \/ CreateDummyWrite(t) \/ CreateDummySetRemote(t)

Create(t) ==
  \/ \E p \in OpPaths : CreateStart(t, p)
  \/ CreateOpen(t) \/ CreateRegister(t) \/ CreateSetDirty(t)

Mkdir(t) ==
  \/ \E p \in OpPaths : MkdirStart(t, p)
  \/ MkdirRegister(t) \/ MkdirMkdir(t)

Rmdir(t) ==
  \/ \E p \in OpPaths : RmdirStart(t, p)
  \/ RmdirLock(t) \/ RmdirRmdir(t)

DeleteFile(t) ==
  \/ DeleteFileDeletePath(t) \/ DeleteFileUnlink(t)
  \/ DeleteFileSetToDelete(t)

Unlink(t) ==
  \/ \E p \in OpPaths : UnlinkStart(t, p)
  \/ UnlinkResolve(t) \/ UnlinkLink(t) \/ UnlinkLock(t)

Rename(t) ==
  \/ \E old \in OpPaths, new \in Paths : RenameStart(t, old, new)
  \/ RenameLockNew(t) \/ RenameOs(t)
  \/ RenameRegistry(t)

Next ==
  \/ \E h \in Fds : Release(h)
  \/ Return(Fuse)
  \/ Open(Fuse) \/ Hydrate(Fuse) \/ ReplaceDummy(Fuse)
  \/ Write(Fuse) \/ Truncate(Fuse) \/ CreateDummy(Fuse)
  \/ Create(Fuse) \/ Mkdir(Fuse) \/ Rmdir(Fuse) \/ DeleteFile(Fuse)
  \/ Unlink(Fuse) \/ Rename(Fuse)

Spec == Init /\ [][Next]_vars

\* The callbacks on a path that is there: no create, mkdir or rmdir.
NextFile ==
  \/ \E h \in Fds : Release(h)
  \/ Return(Fuse)
  \/ Open(Fuse) \/ Hydrate(Fuse) \/ ReplaceDummy(Fuse)
  \/ Write(Fuse) \/ Truncate(Fuse) \/ CreateDummy(Fuse)
  \/ DeleteFile(Fuse) \/ Unlink(Fuse) \/ Rename(Fuse)

SpecFile == Init /\ [][NextFile]_vars

\* Time passes between the callbacks that dehydrate and hydrate a file.
NextHydrate ==
  \/ Tick
  \/ \E h \in Fds : Release(h)
  \/ Return(Fuse)
  \/ Open(Fuse) \/ Hydrate(Fuse) \/ ReplaceDummy(Fuse)
  \/ Write(Fuse) \/ Truncate(Fuse) \/ CreateDummy(Fuse)

SpecHydrate == Init /\ [][NextHydrate]_vars

\* The worker calls replace_dummy(inode) right after its create_dummy(inode)
\* has returned; was2 keeps the state create_dummy was called in.
ReplaceDummyNext(t) ==
  /\ task[t].pc = "ret" /\ task[t].op = "create_dummy" /\ task[t].res = "ok"
  /\ get_paths(task[t].inode) # {}
  /\ Local(t, [Started("replace_dummy", FirstPath(task[t].inode)) EXCEPT
                 !.pc = "rpl_lock", !.inode = task[t].inode,
                 !.was2 = task[t].was], locks)
  /\ UNCHANGED <<reg, nextInode, st, now>>

NextRoundTrip == NextHydrate \/ ReplaceDummyNext(Fuse)

SpecRoundTrip == Init /\ [][NextRoundTrip]_vars

\* A thread of the filesystem adapter and the worker, on one registered file:
\* the adapter's thread opens, reads, writes and truncates it while the worker
\* dehydrates and hydrates its inode.
InitRW == \E ka \in {"clean", "dirty", "remote"} :
            InitFor([p \in Paths |-> IF p = "/a" THEN ka ELSE "absent"])

NextRW ==
  \/ \E h \in Fds : Release(h)
  \/ \E t \in Tasks : Return(t)
  \/ \E t \in Tasks : LockExhausted(t)
  \/ \E t \in Tasks : Hydrate(t)
  \/ Open(Fuse) \/ Read(Fuse) \/ Write(Fuse) \/ Truncate(Fuse)
  \/ CreateDummy(Worker) \/ ReplaceDummy(Worker)

SpecRW == InitRW /\ [][NextRW]_vars

\* A thread of the adapter asks for the attributes of a registered file while
\* the worker dehydrates its inode.
NextAttr ==
  \/ Return(Fuse) \/ Return(Worker)
  \/ Getattributes(Fuse)
  \/ CreateDummy(Worker)

SpecAttr == InitRW /\ [][NextAttr]_vars

\* Two threads of the adapter rename two registered files onto each other.
InitRenames == \E ka \in {"clean", "remote"}, kb \in {"clean", "remote"} :
                 InitFor([p \in Paths |-> IF p = "/a" THEN ka ELSE kb])

\* The steps of a callback of task t that is under way.
Step(t) ==
  \/ RenameLockNew(t) \/ RenameOs(t) \/ RenameRegistry(t) \/ DeleteFile(t)
  \/ LockExhausted(t)

NextRenames ==
  \/ RenameStart(Fuse, "/a", "/b")
  \/ RenameStart(Fuse2, "/b", "/a")
  \/ \E t \in {Fuse, Fuse2} : Return(t)
  \/ \E t \in {Fuse, Fuse2} : Step(t)

\* Every thread that is in a callback goes on running.
SpecRenames == InitRenames /\ [][NextRenames]_vars
                 /\ \A t \in {Fuse, Fuse2} : WF_vars(Step(t))

\* One thread of the adapter renames a registered file onto a free name
\* while another one creates a file of that name.
InitRace == \E ka \in {"clean", "dirty", "remote"} :
              InitFor([p \in Paths |-> IF p = "/a" THEN ka ELSE "absent"])

NextRace ==
  \/ RenameStart(Fuse, "/a", "/b")
  \/ RenameLockNew(Fuse) \/ RenameOs(Fuse) \/ RenameRegistry(Fuse)
  \/ DeleteFile(Fuse)
  \/ CreateStart(Fuse2, "/b")
  \/ CreateOpen(Fuse2) \/ CreateRegister(Fuse2) \/ CreateSetDirty(Fuse2)
  \/ Return(Fuse) \/ Return(Fuse2)

SpecRace == InitRace /\ [][NextRace]_vars

\* The first byte of every text json.dump writes for a dictionary.
JsonHead == <<-1>>

\* The callbacks on a path that is there, with a write of the byte a
\* placeholder begins with.
NextStale ==
  \/ NextFile
  \/ \E h \in Fds : WriteStart(Fuse, "/a", JsonHead, 0, h)

SpecStale == Init /\ [][NextStale]_vars

\* Two threads of the adapter read one registered file through the same
\* descriptor.
InitReaders == \E ka \in {"clean", "dirty"} :
                 InitFor([p \in Paths |-> IF p = "/a" THEN ka ELSE "absent"])

NextReaders ==
  \/ \E h \in Fds : Release(h)
  \/ \E t \in {Fuse, Fuse2} : Return(t)
  \/ Open(Fuse)
  \/ Read(Fuse) \/ Read(Fuse2)

SpecReaders == InitReaders /\ [][NextReaders]_vars

\* ================================================================== claims

Quiet == \A t \in Tasks : task[t].pc \in {"idle", "ret"}

\* C1: in every reachable state, for every logical path at most one of the
\* bare cache file and the placeholder file exists on disk.
C1_AtMostOneForm ==
  \A p \in Paths : ~(IsFile(bare[p]) /\ IsFile(dummy[p]))

\* C2: whenever no operation is in progress, the tag of the inode of every
\* registered file matches the on-disk form of its path: remote iff only the
\* placeholder is there, dirty or clean-local iff only the bare file is there,
\* to-delete iff neither is there.
C2_TagMatchesDisk ==
  Quiet =>
    \A p \in Paths :
      exists(reg[p]) =>
        /\ st[reg[p]] = Remote <=> (IsFile(dummy[p]) /\ ~IsFile(bare[p]))
        /\ st[reg[p]] \in {Dirty, Clean} <=> (IsFile(bare[p]) /\ ~IsFile(dummy[p]))
        /\ st[reg[p]] = ToDelete <=> (~IsFile(bare[p]) /\ ~IsFile(dummy[p]))

\* C3: every change of an inode's tag is a legal transition: a new inode
\* becomes dirty (create), a clean-local one becomes dirty (write, truncate)
\* or remote (create_dummy), a remote one becomes clean-local (replace_dummy),
\* and a clean-local, dirty or remote one becomes to-delete (_delete_file).
\* No step moves remote to dirty, dirty to clean-local, dirty to remote, or
\* to-delete to another tag.
LegalTransition(from, to) ==
  \/ from = NoTag /\ to = Dirty
  \/ from = Clean /\ to \in {Dirty, Remote}
  \/ from = Remote /\ to = Clean
  \/ from \in {Clean, Dirty, Remote} /\ to = ToDelete

C3_LegalTransitions ==
  [][\A i \in Inodes : st'[i] # st[i] => LegalTransition(st[i], st'[i])]_vars

\* C4: every step of a callback that changes the on-disk form, the registry
\* entry or the tag of a path is taken while the task holds the lock of that
\* path.
\* The positions from which the next step of a callback has such an effect,
\* and the paths the effect is on.
EffectPcs ==
  {"hy_rename", "hy_open", "hy_download", "hy_utime", "hy_done",
   "write_write", "write_dirty", "trunc_dirty", "trunc_trunc",
   "create_open", "create_register", "create_dirty",
   "mkdir_register", "mkdir_mkdir", "rmdir_rmdir",
   "df_delete", "df_unlink", "df_todelete", "unlink_link",
   "rename_os", "rename_registry",
   "cd_rename", "cd_write", "cd_remote"}

EffectPaths(t) ==
  CASE task[t].pc \in {"hy_rename", "hy_open", "hy_download", "hy_utime", "hy_done"}
         -> {task[t].hp}
    [] task[t].pc \in {"rmdir_rmdir", "df_delete", "df_unlink", "df_todelete"}
         -> {task[t].dp}
    [] task[t].pc \in {"rename_os", "rename_registry"}
         -> {task[t].path, task[t].path2}
    [] OTHER -> {task[t].path}

C4_EffectsUnderLock ==
  \A t \in Tasks :
    task[t].pc \in EffectPcs => \A p \in EffectPaths(t) : Holds(t, p)

\* The callback of task t is over and was op.
Done(t, op) == task[t].pc = "ret" /\ task[t].op = op

\* C8: an open on a file whose state is remote hydrates: when it returns a
\* descriptor it has called the remote download for the inode.  After an open
\* that failed with network-unreachable the state is still remote, so the
\* next open is such an open.
C8_OpenRetriesHydration ==
  \A t \in Tasks :
    (Done(t, "open") /\ task[t].res = "ok" /\ task[t].was.tag = Remote)
      => \E k \in 1 .. Len(task[t].ev) : task[t].ev[k] = "download"

\* C9: after rename(old, new) of a registered file old onto a registered
\* path new that holds a file, the inode that was at new is to-delete and its
\* on-disk form is gone, old is not registered, new maps to the inode old
\* had, and the on-disk form of that inode is at new.
WasFile(w) == w.inode # None /\ w.tag \in {Clean, Dirty, Remote}
                /\ (w.bare = "file" \/ w.dummy = "file")

C9_RenameOverFile ==
  \A t \in Tasks :
    (Done(t, "rename") /\ WasFile(task[t].was) /\ WasFile(task[t].was2))
      => /\ task[t].res = "ok"
         /\ st[task[t].was2.inode] = ToDelete
         /\ reg[task[t].path] = None
         /\ reg[task[t].path2] = task[t].was.inode
         /\ IsFile(bare[task[t].path2]) # IsFile(dummy[task[t].path2])
         /\ ~IsFile(bare[task[t].path]) /\ ~IsFile(dummy[task[t].path])

\* C10: after unlink(path) on a registered regular file, in either on-disk
\* form, the path is not registered, neither form is on disk and the inode is
\* to-delete; after unlink(path) on a symlink the link is gone and the state
\* store is as it was.
C10_Unlink ==
  \A t \in Tasks :
    Done(t, "unlink") =>
      /\ WasFile(task[t].was) =>
            /\ task[t].res = "ok"
            /\ reg[task[t].path] = None
            /\ ~IsFile(bare[task[t].path]) /\ ~IsFile(dummy[task[t].path])
            /\ st[task[t].was.inode] = ToDelete
      /\ task[t].was.bare \in {"link", "deadlink"} =>
            /\ task[t].res = "ok"
            /\ bare[task[t].path].kind = "absent"
            /\ st = task[t].was.st

\* The positions from which the next step of read, write and truncate is the
\* one on the disk.
DiskPcs == {"read_seek", "read_read", "write_write", "trunc_trunc"}

\* C5: while the worker dehydrates and hydrates the inode of a path, read,
\* write and truncate on that path take their on-disk step only in a state
\* where exactly one of the bare file and the placeholder is on disk.
C5_NoPartialRename ==
  \A t \in Tasks :
    task[t].pc \in DiskPcs =>
      IsFile(bare[task[t].path]) # IsFile(dummy[task[t].path])

\* A write is about to reach the disk while the worker's create_dummy, called
\* for the inode of the same path, waits for the lock.
C5_Witness ==
  /\ task[Fuse].pc = "write_write"
  /\ task[Worker].pc = "cd_lock"
  /\ task[Worker].path = task[Fuse].path

\* C6: create_dummy checks the state of the inode while it holds the lock of
\* the path, and when the state is dirty it returns there and then: bare
\* file, contents, placeholder, registry and tags are as they were.  None of
\* its later steps is taken while the inode is dirty.
C6_DirtyCreateDummyNoOp ==
  [][\A t \in Tasks :
       /\ (task[t].pc = "cd_check" /\ st[task[t].inode] = Dirty
              /\ task'[t] # task[t])
            => /\ HoldsEx(t, task[t].path)
               /\ task'[t].pc = "ret" /\ task'[t].res = "refused"
               /\ bare' = bare /\ dummy' = dummy /\ files' = files
               /\ reg' = reg /\ st' = st
       /\ task[t].pc \in {"cd_stat", "cd_rename", "cd_write", "cd_remote"}
            => st[task[t].inode] # Dirty]_vars

\* create_dummy was called on a clean inode, a write got the lock first, and
\* create_dummy found the inode dirty and refused.
C6_Witness ==
  /\ Done(Fuse, "write") /\ task[Fuse].res = "ok"
  /\ Done(Worker, "create_dummy")
  /\ task[Worker].res = "refused"
  /\ task[Worker].was.tag = Clean
  /\ st[task[Worker].inode] = Dirty
  /\ IsFile(bare[task[Worker].path]) /\ ~IsFile(dummy[task[Worker].path])

\* The open of task t was called on a registered remote inode whose
\* placeholder was on disk, and returned a descriptor.
OpenedRemote(t) ==
  /\ Done(t, "open") /\ task[t].res = "ok"
  /\ task[t].was.inode # None
  /\ task[t].was.tag = Remote
  /\ task[t].was.dummy = "file"

\* C7: after a successful open of a registered path whose inode was remote
\* with its placeholder on disk, the bare file is there with the bytes the
\* download returned for the inode, the placeholder is gone, atime and mtime
\* are the ones the placeholder stored, and the state is clean.
C7_OpenHydrates ==
  \A t \in Tasks :
    OpenedRemote(t) =>
      LET p == task[t].path
          sd == JsonLoad(task[t].was.bytes)
      IN /\ IsFile(bare[p])
         /\ files[bare[p].file].bytes = Download(task[t].was.inode)
         /\ ~IsFile(dummy[p])
         /\ files[bare[p].file].atime = sd.st_atime
         /\ files[bare[p].file].mtime = sd.st_mtime
         /\ st[task[t].was.inode] = Clean

\* Such an open has returned, later than the times the placeholder stored.
C7_Witness ==
  /\ OpenedRemote(Fuse)
  /\ JsonLoad(task[Fuse].was.bytes).st_mtime < now

\* The places of signal or effect e in the events of a callback.
EvAt(ev, e) == {k \in 1 .. Len(ev) : ev[k] = e}

\* C11: a read, write, truncate or create that returns has sent the ranker
\* exactly one access signal, and a file deletion (unlink, or rename over a
\* file) exactly one delete signal, in both cases after the effect on the
\* disk and not before it.
C11_RankerAfterEffect ==
  \A t \in Tasks :
    (task[t].pc = "ret" /\ task[t].res = "ok") =>
      /\ task[t].op \in {"read", "write", "truncate", "create"} =>
            /\ Cardinality(EvAt(task[t].ev, "access")) = 1
            /\ \A a \in EvAt(task[t].ev, "access") :
                 \E d \in EvAt(task[t].ev, "disk") : d < a
      /\ (\/ task[t].op = "unlink" /\ WasFile(task[t].was)
          \/ task[t].op = "rename" /\ WasFile(task[t].was2)) =>
            /\ Cardinality(EvAt(task[t].ev, "delete")) = 1
            /\ \A a \in EvAt(task[t].ev, "delete") :
                 \E d \in EvAt(task[t].ev, "disk") : d < a

\* Converter.strip_dummy_ending over os.listdir: the names list shows, for
\* the directory the paths are in.
list == {p \in Paths : bare[p].kind # "absent" \/ dummy[p].kind # "absent"}

\* C12: in every reachable state, the intermediate states of the callbacks
\* included, every path the inode registry knows has a directory, a bare
\* file or a placeholder on disk, so list shows its name.
C12_ListShowsRegistry ==
  \A p \in Paths : reg[p] # None => p \in list

\* The replace_dummy of task t followed its create_dummy on a clean file and
\* has returned.
RoundTrip(t) ==
  /\ Done(t, "replace_dummy") /\ task[t].res = "ok"
  /\ task[t].was2.tag = Clean /\ task[t].was2.bare = "file"

\* C13: create_dummy(inode) on a clean file followed by a successful
\* replace_dummy(inode) leaves the bare file on disk and no placeholder, with
\* the atime and mtime the file had before create_dummy, the path registered
\* for the same inode as before, and the state clean.
C13_RoundTrip ==
  \A t \in Tasks :
    RoundTrip(t) =>
      LET p == task[t].path
      IN /\ IsFile(bare[p]) /\ ~IsFile(dummy[p])
         /\ files[bare[p].file].atime = task[t].was2.atime
         /\ files[bare[p].file].mtime = task[t].was2.mtime
         /\ reg[p] = task[t].was2.inode
         /\ get_paths(task[t].inode) = {p}
         /\ st[task[t].inode] = Clean

\* Such a round trip is over, at a later time than the times of the file.
C13_Witness ==
  /\ RoundTrip(Fuse)
  /\ task[Fuse].was2.mtime < now
  /\ task[Fuse].inode = task[Fuse].was2.inode

\* C14: getattributes fails with not-found exactly when neither on-disk form
\* of the path is there, and for a path in placeholder form it returns the
\* stat dictionary stored in the placeholder, also while the worker runs
\* create_dummy on the inode of the path.
C14_Getattributes ==
  \A t \in Tasks :
    Done(t, "getattributes") =>
      /\ task[t].res = "ENOENT"
           <=> (task[t].was.bare = "absent" /\ task[t].was.dummy = "absent")
      /\ task[t].was.dummy = "file" =>
           /\ task[t].res = "ok"
           /\ JsonValid(task[t].was.bytes)
           /\ task[t].sd = JsonLoad(task[t].was.bytes)

\* C15: a callback that is under way ends, by a return or by a failure, and
\* a task that is in no callback holds no path lock; so also for rename(a, b)
\* and rename(b, a) called together, each holding the lock of its old path
\* while it asks for the lock of the other.
C15_Terminates ==
  /\ [](\A t \in Tasks : \A p \in Paths :
          task[t].pc \in {"idle", "ret"} => ~Holds(t, p))
  /\ \A t \in Tasks :
       (task[t].pc \notin {"idle", "ret"}) ~> (task[t].pc = "ret")

\* Each of the two renames holds the lock of its old path and waits for the
\* lock of the other one.
C15_Witness ==
  /\ task[Fuse].pc = "rename_locknew" /\ HoldsEx(Fuse, "/a")
  /\ task[Fuse2].pc = "rename_locknew" /\ HoldsEx(Fuse2, "/b")

\* The callback of task t failed with network-unreachable.
Unreachable(t) == task[t].pc = "ret" /\ task[t].res = "ENETUNREACH"

\* C16: when the download of a hydration fails, the callback fails with
\* network-unreachable and nothing is undone: the placeholder is gone, an
\* empty bare file is at the cache path, and the tags are as they were, so
\* the inode is still remote.
C16_NoRollback ==
  \A t \in Tasks :
    Unreachable(t) =>
      LET p == task[t].path
      IN /\ task[t].op \in {"open", "truncate", "replace_dummy"}
         /\ ~IsFile(dummy[p])
         /\ IsFile(bare[p]) /\ files[bare[p].file].bytes = <<>>
         /\ st = task[t].was.st
         /\ task[t].was.tag = Remote => st[task[t].was.inode] = Remote

\* An open of a remote file whose placeholder was on disk failed so.
C16_Witness ==
  /\ Unreachable(Fuse) /\ task[Fuse].op = "open"
  /\ task[Fuse].was.tag = Remote /\ task[Fuse].was.dummy = "file"
  /\ task[Fuse].was.bare = "absent"

\* The create of task u on the new path of the rename of task t is over,
\* while the rename, which found no inode at the new path when it looked, is
\* about to rename on disk a file that is there.
CreatedMeanwhile(t, u) ==
  /\ task[t].pc = "rename_os" /\ task[t].was2.inode = None
  /\ IsFile(bare[task[t].path])
  /\ Done(u, "create") /\ task[u].res = "ok"
  /\ task[u].path = task[t].path2
  /\ task[u].inode # None

\* C17: rename looks for an inode at the new path under the lock of the old
\* path only.  When a create of the new path by another task is over between
\* that look and the rename on disk, the rename replaces the created file by
\* the renamed one, and the inode of the created file gets no to-delete tag
\* and no delete signal.
C17_RenameCreateRace ==
  [][\A t, u \in Tasks :
       (CreatedMeanwhile(t, u) /\ task'[t] # task[t]) =>
         /\ task'[t].pc = "rename_registry"
         /\ files'[bare'[task[t].path2].file] = files[bare[task[t].path].file]
         /\ fds'[task[u].outfd].file # bare'[task[t].path2].file
         /\ st'[task[u].inode] = Dirty
         /\ EvAt(task'[t].ev, "delete") = {}]_vars

\* Such a create is over, of a name that was free when the rename looked:
\* the created file is at the new path, registered and dirty, and the rename
\* is about to rename onto it.
C17_Witness ==
  /\ CreatedMeanwhile(Fuse, Fuse2)
  /\ task[Fuse].was2.bare = "absent" /\ task[Fuse2].was.bare = "absent"
  /\ IsFile(bare["/b"]) /\ fds[task[Fuse2].outfd].file = bare["/b"].file
  /\ reg["/b"] = task[Fuse2].inode
  /\ st[task[Fuse2].inode] = Dirty

\* C18: hydration never writes downloaded bytes into the file of an inode
\* whose state is dirty, and never makes a dirty inode clean: what write and
\* truncate wrote is not discarded, whatever the callbacks before.
C18_DirtyNeverOverwritten ==
  [][/\ \A i \in Inodes : st[i] = Dirty => st'[i] # Clean
     /\ \A t \in Tasks :
          (task[t].pc = "hy_download" /\ task[t].inode \in Inodes
             /\ task'[t].pc = "hy_utime")
            => st[task[t].inode] # Dirty]_vars

\* C19: read returns the bytes of the file that start at the offset it was
\* called with, also when another read on the same path and the same
\* descriptor runs at the same time.
C19_ReadAtOffset ==
  [][\A t \in {Fuse, Fuse2} :
       (task[t].pc = "read_read" /\ task'[t].pc = "ret")
         => task'[t].outbytes =
              ReadAt(files[fds[task[t].fh].file].bytes, task[t].offset,
                     task[t].n)]_vars

\* C20: a rename(old, new) that fails at its os.rename leaves new as it was
\* called: the file that was registered at new is still registered there,
\* still on disk and not to-delete, and old still maps to its inode.
C20_RenameAllOrNothing ==
  [][\A t \in Tasks :
       (task[t].pc = "rename_os" /\ task'[t].pc = "ret"
          /\ WasFile(task[t].was2))
         => /\ reg'[task[t].path2] = task[t].was2.inode
            /\ (IsFile(bare'[task[t].path2]) \/ IsFile(dummy'[task[t].path2]))
            /\ st'[task[t].was2.inode] # ToDelete
            /\ reg'[task[t].path] = task[t].was.inode]_vars

====
